---- MODULE Spec2Model ----
(***************************************************************************)
(* polaris_health health monitors: the deadline-budgeted TCPSocket         *)
(* (protocols/tcp.py), the TCP/TLS monitor's run() (monitors/tcp.py) and   *)
(* the external-script monitor's run() (monitors/external.py).             *)
(*                                                                         *)
(* Time is counted in ticks.  Text is a sequence of one-character strings, *)
(* bytes are a sequence of byte names: the ASCII bytes stand for           *)
(* themselves, "C3" "A9" is the two-byte UTF-8 encoding of U+00E9.         *)
(***************************************************************************)
EXTENDS Integers, Sequences, FiniteSets, TLC

VARIABLES monitor, run, log

vars == <<monitor, run, log>>

(***************************** bounds **************************************)
\* largest configured monitor timeout, in ticks
MaxTimeout == 2
\* largest measuring overhead of one socket call, in ticks
MaxOverhead == 1
\* number of received chunks the history of one run() records
MaxChunks == 2
\* number of run() calls one worker thread makes
MaxCalls == 2
\* length of the long filler chunk
BigLen == 600
\* length of the longest match_re a monitor is constructed with
MaxPatLen == 130

(************************** program constants ******************************)
RECV_BUFF_SIZE == 8192
MAX_SHOWN == 512
MAX_MATCH_RE_LEN == 128
MAX_SEND_STRING_LEN == 256

\* Python's None, comparable with the sequences it stands in for
None == <<"None">>

(***************************** text, bytes *********************************)
AsciiBytes == {"o", "k", "O", "K", "x", "\n"}

\* bytes.decode(errors='ignore'): UTF-8, undecodable bytes are dropped.  An
\* ASCII byte is its character, "C3" directly followed by "A9" is U+00E9, the
\* "A9" after a "C3" is part of that character; a "C3" with no "A9" after it
\* and an "A9" with no "C3" before it are undecodable.
Decode(b) ==
    LET char == [i \in 1..Len(b) |->
                    IF b[i] \in AsciiBytes THEN b[i]
                    ELSE IF b[i] = "C3" /\ i < Len(b) /\ b[i + 1] = "A9"
                         THEN "U+E9"
                    ELSE ""]
    IN  SelectSeq(char, LAMBDA c : c # "")

RECURSIVE Flatten(_)
\* b''.join(chunks)
Flatten(chunks) ==
    IF chunks = <<>> THEN <<>> ELSE Head(chunks) \o Flatten(Tail(chunks))

\* str[:n]
Take(s, n) == IF Len(s) <= n THEN s ELSE SubSeq(s, 1, n)

\* case folding of re.I
Fold(c) == IF c = "O" THEN "o" ELSE IF c = "K" THEN "k" ELSE c

IsSpace(c) == c \in {"\n", " ", "\t"}

RECURSIVE LStrip(_)
LStrip(s) == IF s # <<>> /\ IsSpace(Head(s)) THEN LStrip(Tail(s)) ELSE s

RECURSIVE RStrip(_)
RStrip(s) ==
    IF s # <<>> /\ IsSpace(s[Len(s)]) THEN RStrip(SubSeq(s, 1, Len(s) - 1)) ELSE s

\* str.strip()
Strip(s) == RStrip(LStrip(s))

(**************************** pattern matcher ******************************)
\* A match_re is "^"? literal* "$"?, compiled with re.I.
AnchoredStart(p) == p # <<>> /\ p[1] = "^"
AnchoredEnd(p) == p # <<>> /\ p[Len(p)] = "$"
Literal(p) ==
    SubSeq(p, IF AnchoredStart(p) THEN 2 ELSE 1,
              IF AnchoredEnd(p) THEN Len(p) - 1 ELSE Len(p))

\* the literal matches text at position i
MatchesAt(lit, text, i) ==
    /\ i + Len(lit) - 1 <= Len(text)
    /\ \A j \in 1..Len(lit) : Fold(text[i + j - 1]) = Fold(lit[j])

\* "$" without re.M: the end of the text, or just before a final newline
AtEnd(text, e) ==
    \/ e = Len(text)
    \/ e = Len(text) - 1 /\ text[Len(text)] = "\n"

\* self._match_re_compiled.search(text)
Search(p, text) ==
    LET lit == Literal(p)
    IN  \E i \in 1..(Len(text) + 1) :
            /\ MatchesAt(lit, text, i)
            /\ AnchoredStart(p) => i = 1
            /\ AnchoredEnd(p) => AtEnd(text, i + Len(lit) - 1)

(****************************** exceptions *********************************)
\* class: "running" while run() executes, "returned" after a normal return,
\* otherwise the class of the exception run() raised.
Exc(class, text, error, response) ==
    [class |-> class, text |-> text, error |-> error, response |-> response]
NoExc == Exc("", "", "", <<>>)
Running == Exc("running", "", "", <<>>)
Returned == Exc("returned", "", "", <<>>)

\* ProtocolError('{} {} during socket.x()'.format(e.__class__.__name__, e))
ProtocolError(error, text) == Exc("ProtocolError", text, error, <<>>)

\* raise MonitorFailed(e): the message is the ProtocolError's
MonitorFailedFrom(e) == Exc("MonitorFailed", e.text, e.error, <<>>)

(******************************* events ************************************)
\* What the environment does in one step of a run(): the outcome `out` of the
\* blocking call, the ticks `b` it blocked, the ticks `o` the two
\* time.monotonic() readings add, the bytes received, whether
\* socket.shutdown() succeeded, whether the TLS library closed the handle
\* of a failed handshake, and the script's exit code, stdout and stderr.
Ev(op, out, b, o, data) ==
    [op |-> op, out |-> out, b |-> b, o |-> o, data |-> data,
     shutdown_ok |-> TRUE, lib_closed |-> FALSE, code |-> 0, stderr |-> <<>>]

\* OSError subclasses a socket call raises
OSErrors == {"TimeoutError", "ConnectionResetError"}

\* a socket with timeout 0 is non-blocking: it raises BlockingIOError
\* where a blocking one would wait and time out
ErrName(e, R) == IF e = "TimeoutError" /\ R = 0 THEN "BlockingIOError" ELSE e

\* ticks a failing call blocked: a timeout blocks for the whole timeout
FailTimes(e, R) == IF e = "TimeoutError" THEN {R} ELSE 0..R

\* ticks <<blocked, overhead>> of a successful call under socket timeout R:
\* the call blocks at most R, and the measured time is positive
OkTimes(R) == {t \in (0..R) \X (0..MaxOverhead) : t[1] + t[2] >= 1}

FailEvents(op, R) ==
    UNION {{Ev(op, ErrName(e, R), b, 0, <<>>) : b \in FailTimes(e, R)} :
           e \in OSErrors}

(****************************** TCPSocket **********************************)
HasColon(ip) == \E i \in DOMAIN ip : ip[i] = ":"

NoSock ==
    [ip |-> <<>>, port |-> 0, timeout |-> 0, auto_timeout |-> TRUE,
     family |-> "", fd_open |-> FALSE, os_timeout |-> 0, tls |-> FALSE]

\* TCPSocket.settimeout
SetTimeout(sock, timeout) == [sock EXCEPT !.os_timeout = timeout]

\* TCPSocket.__init__
TCPSocket(ip, port, timeout) ==
    SetTimeout([ip |-> ip, port |-> port, timeout |-> timeout,
                auto_timeout |-> TRUE,
                family |-> IF HasColon(ip) THEN "AF_INET6" ELSE "AF_INET",
                fd_open |-> TRUE, os_timeout |-> 0, tls |-> FALSE],
               timeout)

\* DecreaseTimeout with a fault: the new value is not applied to the socket
DecreaseTimeoutNotApplied(sock, time_taken) ==
    IF sock.auto_timeout
    THEN LET t == IF sock.timeout - time_taken < 0 THEN 0
                  ELSE sock.timeout - time_taken
         IN  [sock EXCEPT !.timeout = t]
    ELSE sock

\* TCPSocket._decrease_timeout
DecreaseTimeout(sock, time_taken) ==
    IF sock.auto_timeout
    THEN LET t == IF sock.timeout - time_taken < 0 THEN 0
                  ELSE sock.timeout - time_taken
         IN  SetTimeout([sock EXCEPT !.timeout = t], t)
    ELSE sock

\* self._sock.close()
CloseFd(sock) == [sock EXCEPT !.fd_open = FALSE]

\* The methods give the socket after the call, the exception raised (NoExc
\* when none) and the value returned.
Outcome(sock, exc, ret) == [sock |-> sock, exc |-> exc, ret |-> ret]

\* TCPSocket.connect
SockConnect(sock, ev) ==
    IF ev.out = "ok"
    THEN Outcome(DecreaseTimeout(sock, ev.b + ev.o), NoExc, <<>>)
    ELSE Outcome(CloseFd(sock),
                 ProtocolError(ev.out, "during socket.connect()"), <<>>)

\* TCPSocket.wrap_ssl: only ssl.SSLError is caught; the time the handshake
\* takes is not measured.  Any other exception of wrap_socket() (a handshake
\* timeout, a connection reset, the ValueError for a non-blocking socket)
\* propagates as it is; the source does not close the handle then, the TLS
\* library may.
SockWrapSsl(sock, ev) ==
    IF ev.out = "ok"
    THEN Outcome([sock EXCEPT !.tls = TRUE], NoExc, <<>>)
    ELSE IF ev.out = "SSLError"
    THEN Outcome(CloseFd(sock),
                 ProtocolError("SSLError", "SSL error during TLS handshake"),
                 <<>>)
    ELSE Outcome(IF ev.lib_closed THEN CloseFd(sock) ELSE sock,
                 Exc(ev.out, "", ev.out, <<>>), <<>>)

\* TCPSocket.sendall
SockSendall(sock, ev) ==
    IF ev.out = "ok"
    THEN Outcome(DecreaseTimeout(sock, ev.b + ev.o), NoExc, <<>>)
    ELSE Outcome(CloseFd(sock),
                 ProtocolError(ev.out, "during socket.sendall()"), <<>>)

\* TCPSocket.recv: the bytes received, b'' when the peer closed
SockRecv(sock, ev) ==
    IF ev.out \in {"ok", "eof"}
    THEN Outcome(DecreaseTimeout(sock, ev.b + ev.o), NoExc, ev.data)
    ELSE Outcome(CloseFd(sock),
                 ProtocolError(ev.out, "during socket.recv()"), <<>>)

\* TCPSocket.close: shutdown() and close() share one try block, so an
\* OSError of shutdown() skips close(); it is logged, never raised
SockClose(sock, ev) ==
    IF ev.shutdown_ok
    THEN Outcome(CloseFd(sock), NoExc, <<>>)
    ELSE Outcome(sock, NoExc, <<>>)

(******************************* TCP.run ***********************************)
\* The state of one run() invocation: where it is, its locals tcp_sock and
\* response_string, and how it ended.
RunState(pc, dst_ip, tcp_sock, response_string, result) ==
    [pc |-> pc, dst_ip |-> dst_ip, tcp_sock |-> tcp_sock,
     response_string |-> response_string, result |-> result]

Idle == RunState("idle", <<>>, NoSock, <<>>, Running)

\* run() raises exc / returns None
Raise(st, sock, exc) ==
    [st EXCEPT !.pc = "done", !.tcp_sock = sock, !.result = exc]
Return(st, sock) ==
    [st EXCEPT !.pc = "done", !.tcp_sock = sock, !.result = Returned]

\* tcp_sock = TCPSocket(ip=dst_ip, port=self.port, timeout=self.timeout)
TcpStart(mon, dst_ip) ==
    RunState("connect", dst_ip, TCPSocket(dst_ip, mon.port, mon.timeout),
             <<>>, Running)

\* the step after the optional TLS handshake
AfterTls(mon) == IF mon.send_string # None THEN "sendall" ELSE "match_re_check"

\* TcpConnect with a fault: a failed connect() is tried again
TcpConnectRetry(mon, st, ev) ==
    LET c == SockConnect(st.tcp_sock, ev)
    IN  IF c.exc.class = "ProtocolError"
        THEN [st EXCEPT !.tcp_sock = c.sock]
        ELSE [st EXCEPT !.tcp_sock = c.sock,
                        !.pc = IF mon.use_tls THEN "wrap_ssl" ELSE AfterTls(mon)]

\* tcp_sock.connect() inside try ... except ProtocolError
TcpConnect(mon, st, ev) ==
    LET c == SockConnect(st.tcp_sock, ev)
    IN  IF c.exc.class = "ProtocolError"
        THEN Raise(st, c.sock, MonitorFailedFrom(c.exc))
        ELSE [st EXCEPT !.tcp_sock = c.sock,
                        !.pc = IF mon.use_tls THEN "wrap_ssl" ELSE AfterTls(mon)]

\* TcpWrapSsl with a fault: after a failed handshake run() goes on
TcpWrapSslGoesOn(mon, st, ev) ==
    LET c == SockWrapSsl(st.tcp_sock, ev)
    IN  IF c.exc.class = "ProtocolError"
        THEN [st EXCEPT !.tcp_sock = c.sock, !.pc = AfterTls(mon)]
        ELSE IF c.exc # NoExc
        THEN Raise(st, c.sock, c.exc)
        ELSE [st EXCEPT !.tcp_sock = c.sock, !.pc = AfterTls(mon)]

\* tcp_sock.wrap_ssl(context=context) inside try ... except ProtocolError
TcpWrapSsl(mon, st, ev) ==
    LET c == SockWrapSsl(st.tcp_sock, ev)
    IN  IF c.exc.class = "ProtocolError"
        THEN Raise(st, c.sock, MonitorFailedFrom(c.exc))
        ELSE IF c.exc # NoExc
        THEN Raise(st, c.sock, c.exc)
        ELSE [st EXCEPT !.tcp_sock = c.sock, !.pc = AfterTls(mon)]

\* tcp_sock.sendall(self._send_bytes) inside try ... except ProtocolError
TcpSendall(mon, st, ev) ==
    LET c == SockSendall(st.tcp_sock, ev)
    IN  IF c.exc.class = "ProtocolError"
        THEN Raise(st, c.sock, MonitorFailedFrom(c.exc))
        ELSE [st EXCEPT !.tcp_sock = c.sock, !.pc = "match_re_check"]

\* TcpMatchReCheck with a fault: it decides on send_string, not on match_re
TcpMatchReCheckOnSend(mon, st, ev) ==
    IF mon.send_string = None
    THEN Return(st, SockClose(st.tcp_sock, ev).sock)
    ELSE [st EXCEPT !.response_string = <<>>, !.pc = "recv"]

\* if self.match_re is None: tcp_sock.close(); return
\* otherwise response_string = '' and the read loop starts
TcpMatchReCheck(mon, st, ev) ==
    IF mon.match_re = None
    THEN Return(st, SockClose(st.tcp_sock, ev).sock)
    ELSE [st EXCEPT !.response_string = <<>>, !.pc = "recv"]

\* the message of a failed recv()
RecvFailedMsg(response_string, e) ==
    IF response_string = <<>>
    THEN Exc("MonitorFailed", "got {error}, no data received from the peer",
             e.error, <<>>)
    ELSE Exc("MonitorFailed",
             "failed to match the regexp within the timeout, got {error}, response(up to 512 chars): {response_string}",
             e.error, Take(response_string, MAX_SHOWN))

\* RemoteClosedMsg with a fault: the response is shown whole
RemoteClosedMsgUncut(response_string) ==
    IF response_string = <<>>
    THEN Exc("MonitorFailed",
             "remote closed the connection, no data received from the peer",
             "", <<>>)
    ELSE Exc("MonitorFailed",
             "remote closed the connection, failed to match the regexp in the response(up to 512 chars): {}",
             "", response_string)

\* the message when recv() returned b''
RemoteClosedMsg(response_string) ==
    IF response_string = <<>>
    THEN Exc("MonitorFailed",
             "remote closed the connection, no data received from the peer",
             "", <<>>)
    ELSE Exc("MonitorFailed",
             "remote closed the connection, failed to match the regexp in the response(up to 512 chars): {}",
             "", Take(response_string, MAX_SHOWN))

\* response_string += recv_bytes.decode(errors='ignore')
Accumulate(response_string, recv_bytes) == response_string \o Decode(recv_bytes)

\* TcpRecv with a fault: a peer that closes ends the run() in success
TcpRecvEofReturns(mon, st, ev) ==
    LET c == SockRecv(st.tcp_sock, ev)
    IN  IF c.exc.class = "ProtocolError"
        THEN Raise(st, c.sock, RecvFailedMsg(st.response_string, c.exc))
        ELSE IF c.ret = <<>>
        THEN Return(st, SockClose(c.sock, ev).sock)
        ELSE LET rs == Accumulate(st.response_string, c.ret)
             IN  IF Search(mon.match_re, rs)
                 THEN Return([st EXCEPT !.response_string = rs],
                             SockClose(c.sock, ev).sock)
                 ELSE [st EXCEPT !.tcp_sock = c.sock, !.response_string = rs]

\* one iteration of the read loop
TcpRecv(mon, st, ev) ==
    LET c == SockRecv(st.tcp_sock, ev)
    IN  IF c.exc.class = "ProtocolError"
        THEN Raise(st, c.sock, RecvFailedMsg(st.response_string, c.exc))
        ELSE IF c.ret = <<>>
        THEN Raise(st, c.sock, RemoteClosedMsg(st.response_string))
        ELSE LET rs == Accumulate(st.response_string, c.ret)
             IN  IF Search(mon.match_re, rs)
                 THEN Return([st EXCEPT !.response_string = rs],
                             SockClose(c.sock, ev).sock)
                 ELSE [st EXCEPT !.tcp_sock = c.sock, !.response_string = rs]

(*************************** ExternalScript.run ****************************)
\* command = [self.script_path, dst_ip]
ExtStart(mon, dst_ip) == RunState("subprocess", dst_ip, NoSock, <<>>, Running)

\* Captured with a fault: the output is used as the script wrote it
CapturedRaw(text) == text

\* stdout = result.stdout.strip(), stderr = result.stderr.strip()
Captured(text) == Strip(text)

\* subprocess.run(command, capture_output=True, timeout=self.timeout,
\* text=True) and the checks of its result
ExtRun(mon, st, ev) ==
    IF ev.out = "TimeoutExpired"
    THEN Raise(st, st.tcp_sock,
               Exc("MonitorFailed", "external script timed out after {} seconds",
                   "", <<>>))
    ELSE IF ev.out = "CalledProcessError"
    THEN Raise(st, st.tcp_sock,
               Exc("MonitorFailed", "external script failed with error: {}",
                   "", <<>>))
    ELSE IF ev.out # "exit"
    THEN Raise(st, st.tcp_sock, Exc(ev.out, "", ev.out, <<>>))
    ELSE LET stdout == Captured(ev.data)
             stderr == Captured(ev.stderr)
             exit_code == ev.code
         IN  IF exit_code # 0
             THEN Raise(st, st.tcp_sock,
                        Exc("MonitorFailed",
                            "external script failed with exit code {}: stderr={}",
                            ToString(exit_code), stderr))
             ELSE IF mon.match_re # None /\ ~Search(mon.match_re, stdout)
             THEN Raise(st, st.tcp_sock,
                        Exc("MonitorFailed",
                            "failed to match regexp \"{}\" in script output",
                            "", <<>>))
             ELSE Return(st, st.tcp_sock)

(************************** one step of a run() ****************************)
\* run(dst_ip) begins
Start(mon, dst_ip) ==
    IF mon.kind = "tcp" THEN TcpStart(mon, dst_ip) ELSE ExtStart(mon, dst_ip)

\* the step run() takes from st when the environment does ev
Apply(mon, st, ev) ==
    CASE st.pc = "connect" -> TcpConnect(mon, st, ev)
      [] st.pc = "wrap_ssl" -> TcpWrapSsl(mon, st, ev)
      [] st.pc = "sendall" -> TcpSendall(mon, st, ev)
      [] st.pc = "match_re_check" -> TcpMatchReCheck(mon, st, ev)
      [] st.pc = "recv" -> TcpRecv(mon, st, ev)
      [] st.pc = "subprocess" -> ExtRun(mon, st, ev)
      [] OTHER -> st

(************************* monitors and inputs *****************************)
Timeouts == {MaxTimeout}

\* the match_re values the monitors are constructed with
TcpMatchRes == {None, <<>>, <<"o", "k">>, <<"U+E9">>}
ExtMatchRes == {None, <<"o", "k">>, <<"^", "O", "K", "$">>}

Monitor(kind, port, use_tls, verify_tls, send_string, match_re, script_path, timeout) ==
    [kind |-> kind, name |-> kind, port |-> port, use_tls |-> use_tls,
     verify_tls |-> verify_tls, send_string |-> send_string,
     match_re |-> match_re, script_path |-> script_path, timeout |-> timeout]

\* TCP(port, use_tls, verify_tls, send_string, match_re, timeout)
TcpMonitors ==
    {Monitor("tcp", 443, tls[1], tls[2], s, m, "", t) :
        tls \in {<<FALSE, TRUE>>, <<TRUE, TRUE>>, <<TRUE, FALSE>>},
        s \in {None, <<"x">>}, m \in TcpMatchRes, t \in Timeouts}

\* ExternalScript(script_path, match_re, timeout)
ExtMonitors ==
    {Monitor("external_script", 0, FALSE, TRUE, None, m, "probe.sh", t) :
        m \in ExtMatchRes, t \in Timeouts}

(************************** monitor construction ***************************)
\* Constructor arguments are typed values.  A number is [type, val] with
\* type "int", "float" or "str" (80, 80.0, '80'); a string is the sequence of
\* its characters, None is None, a bytes object is tagged "bytes".
IntArg(n) == [type |-> "int", val |-> n]
NotInt(type, n) == [type |-> type, val |-> n]
Bytes(s) == <<"bytes">> \o s

\* isinstance(v, str)
IsStr(v) == v # None /\ (v = <<>> \/ Head(v) # "bytes")

\* PortOk with a fault: port 0 passes
PortOkFromZero(port) ==
    ~(port.type # "int" \/ port.val < 0 \/ port.val > 65535)

\* not (not isinstance(port, int) or port < 1 or port > 65535)
PortOk(port) ==
    ~(port.type # "int" \/ port.val < 1 \/ port.val > 65535)

\* MatchReOk with a fault: a match_re of MAX_MATCH_RE_LEN characters fails
MatchReOkBelowMax(match_re) ==
    ~(~IsStr(match_re) \/ Len(match_re) >= MAX_MATCH_RE_LEN)

\* not (not isinstance(match_re, str) or len(match_re) > MAX_MATCH_RE_LEN)
MatchReOk(match_re) ==
    ~(~IsStr(match_re) \/ Len(match_re) > MAX_MATCH_RE_LEN)

\* not (not isinstance(send_string, str)
\*      or len(send_string) > MAX_SEND_STRING_LEN)
SendStringOk(send_string) ==
    ~(~IsStr(send_string) \/ Len(send_string) > MAX_SEND_STRING_LEN)

\* re.compile(match_re, flags=re.I) returns: of the characters the patterns
\* are written in, "(" opens a group that nothing closes
Compiles(match_re) == \A i \in DOMAIN match_re : match_re[i] # "("

\* raise Error(log_msg): no monitor object comes to exist; `assigned` is
\* what __init__ had assigned to self before it raised
Error(text, assigned) == [kind |-> "Error", text |-> text, assigned |-> assigned]

\* the match_re checks, the same in both constructors
MatchReError(match_re) ==
    IF match_re = None THEN ""
    ELSE IF ~MatchReOk(match_re)
    THEN "match_re \"{}\" must be a string, {} chars max"
    ELSE IF ~Compiles(match_re)
    THEN "failed to compile a regular expression from \"{}\", {}"
    ELSE ""

\* TCP.__init__
TcpInit(a) ==
    IF ~PortOk(a.port)
    THEN Error("port \"{}\" must be an integer between 1 and 65535",
               [port |-> a.port])
    ELSE IF MatchReError(a.match_re) # ""
    THEN Error(MatchReError(a.match_re),
               [port |-> a.port, match_re |-> a.match_re])
    ELSE IF a.send_string # None /\ ~SendStringOk(a.send_string)
    THEN Error("send_string \"{}\" must be a string, {} chars max",
               [port |-> a.port, match_re |-> a.match_re,
                send_string |-> a.send_string])
    ELSE Monitor("tcp", a.port.val, a.use_tls, a.verify_tls, a.send_string,
                 a.match_re, "", a.timeout)

\* ExternalScript.__init__
ExtInit(a) ==
    IF ~IsStr(a.script_path)
    THEN Error("script_path must be a valid string, received \"{}\"",
               [script_path |-> a.script_path])
    ELSE IF MatchReError(a.match_re) # ""
    THEN Error(MatchReError(a.match_re),
               [script_path |-> a.script_path, match_re |-> a.match_re])
    ELSE Monitor("external_script", 0, FALSE, TRUE, None, a.match_re,
                 a.script_path, a.timeout)

\* the configuration loader constructs the monitor of a pool
New(a) == IF a.class = "TCP" THEN TcpInit(a) ELSE ExtInit(a)

\* the arguments of a constructor call that has not been made yet
Args(class, port, send_string, match_re, script_path, timeout) ==
    [kind |-> "args", class |-> class, port |-> port, use_tls |-> FALSE,
     verify_tls |-> TRUE, send_string |-> send_string, match_re |-> match_re,
     script_path |-> script_path, timeout |-> timeout]

\* n times the character c
Rep(n, c) == [i \in 1..n |-> c]

\* the match_re values of the configurations: none, no string, literals of
\* 1 and of MAX_MATCH_RE_LEN - 1 .. MaxPatLen characters, and patterns of 2
\* and of MAX_MATCH_RE_LEN characters that do not compile
ArgMatchRes ==
    {None, Bytes(<<"o", "k">>)}
        \cup {Rep(n, "o") : n \in {1} \cup ((MAX_MATCH_RE_LEN - 1)..MaxPatLen)}
        \cup {<<"(">> \o Rep(n - 1, "o") : n \in {2, MAX_MATCH_RE_LEN}}

ArgPorts ==
    {IntArg(n) : n \in {-1, 0, 1, 443, 65535, 65536}}
        \cup {NotInt("str", 443), NotInt("float", 443)}

ArgSendStrings == {None, <<"x">>, Rep(MAX_SEND_STRING_LEN + 1, "x")}

TcpArgs ==
    {Args("TCP", p, s, m, <<>>, t) :
        p \in ArgPorts, s \in ArgSendStrings, m \in ArgMatchRes, t \in Timeouts}

ExtArgs ==
    {Args("ExternalScript", IntArg(0), None, m, path, t) :
        m \in ArgMatchRes, path \in {<<"p">>, None}, t \in Timeouts}

\* destinations: an IPv4 and an IPv6 address
Destinations == {<<"1", ".", "1">>, <<":", ":", "1">>}

\* the filler chunk
Big == [i \in 1..BigLen |-> "x"]

\* what one recv() can return: at most RECV_BUFF_SIZE bytes
Chunks ==
    {c \in {<<"O">>, <<"k">>, <<"C3">>, <<"A9">>} : Len(c) <= RECV_BUFF_SIZE}

\* the chunks of a peer that sends long responses
LongChunks == {c \in {<<"k">>, <<"A9">>, Big} : Len(c) <= RECV_BUFF_SIZE}

\* what a script can print
Stdouts == {<<>>, <<"O", "K">>, <<"o", "k", "\n">>, <<"\n", "O", "K">>, <<"x">>}
Stderrs == {<<>>, <<"x", "\n">>}
ExitCodes == {0, 1}

(************************ what the environment can do **********************)
ConnectEvents(st) ==
    LET R == st.tcp_sock.os_timeout
    IN  {Ev("connect", "ok", t[1], t[2], <<>>) : t \in OkTimes(R)}
            \cup FailEvents("connect", R)

\* the handshake blocks at most the socket's timeout; its time is not measured
WrapSslEvents(st) ==
    LET R == st.tcp_sock.os_timeout
    IN  {Ev("wrap_ssl", out, b, 0, <<>>) : out \in {"ok", "SSLError"}, b \in 0..R}
            \cup {[e EXCEPT !.lib_closed = c] :
                     e \in FailEvents("wrap_ssl", R), c \in BOOLEAN}

SendallEvents(st) ==
    LET R == st.tcp_sock.os_timeout
    IN  {Ev("sendall", "ok", t[1], t[2], <<>>) : t \in OkTimes(R)}
            \cup FailEvents("sendall", R)

\* shutdown() succeeds or raises an OSError
CloseEvents(e) == {[e EXCEPT !.shutdown_ok = s] : s \in BOOLEAN}

MatchReCheckEvents(mon) ==
    IF mon.match_re = None
    THEN CloseEvents(Ev("close", "ok", 0, 0, <<>>))
    ELSE {Ev("match_re_check", "ok", 0, 0, <<>>)}

\* a chunk that completes a match is followed by close()
RecvEvents(mon, st, chunks) ==
    LET R == st.tcp_sock.os_timeout
        matching == {c \in chunks :
                        Search(mon.match_re, Accumulate(st.response_string, c))}
    IN  {Ev("recv", "ok", t[1], t[2], c) : t \in OkTimes(R), c \in chunks \ matching}
            \cup UNION {CloseEvents(Ev("recv", "ok", t[1], t[2], c)) :
                           t \in OkTimes(R), c \in matching}
            \cup {Ev("recv", "eof", t[1], t[2], <<>>) : t \in OkTimes(R)}
            \cup FailEvents("recv", R)

\* The script exits with a code, having written stdout and stderr; or it is
\* killed at the timeout; or it cannot be started; or it exits (with code 0)
\* having written bytes that text=True cannot decode.
ScriptEvents(mon) ==
    {[Ev("subprocess", "exit", b, 0, out) EXCEPT !.code = c, !.stderr = err] :
        b \in 0..mon.timeout, out \in Stdouts, c \in ExitCodes, err \in Stderrs}
      \cup {Ev("subprocess", "TimeoutExpired", mon.timeout, 0, <<>>)}
      \cup {Ev("subprocess", e, 0, 0, <<>>) : e \in {"FileNotFoundError", "PermissionError"}}
      \cup {Ev("subprocess", "UnicodeDecodeError", 0, 0, <<"A9">>)}

(******************************** history **********************************)
\* log[r] records, of worker r's current run(): the chunks received in
\* arrival order (the first MaxChunks of them), whether chunks went
\* unrecorded (0: none; 1, 2: an odd, an even number of them), the ticks
\* spent blocked in socket calls, the socket operations invoked in order
\* (successive recv() calls recorded once), the operation and outcome of the
\* last step, whether close() logged a warning, what the script did; and the
\* number of run() calls the worker has made.
NewLog(calls) ==
    [chunks |-> <<>>, overflow |-> 0, spent |-> 0, ops |-> <<>>,
     last |-> <<"", "">>, warned |-> FALSE, proc |-> Ev("", "", 0, 0, <<>>), calls |-> calls]

\* the history is full: a further chunk is received only if it adds nothing
\* to response_string, and is not recorded
Full(l) == Len(l.chunks) >= MaxChunks

\* the socket operations invoked by the step from st to st2
OpsOf(st, st2) ==
    IF st.pc = "match_re_check"
    THEN IF st2.pc = "done" THEN <<"close">> ELSE <<>>
    ELSE IF st.pc = "recv" /\ st2.result = Returned
    THEN <<"recv", "close">>
    ELSE <<st.pc>>

ClosedIn(ops) == \E i \in DOMAIN ops : ops[i] = "close"

AddOps(ops, new) ==
    IF new # <<>> /\ ops # <<>> /\ Head(new) = "recv" /\ ops[Len(ops)] = "recv"
    THEN ops \o Tail(new)
    ELSE ops \o new

Record(l, st, st2, ev) ==
    LET l1 == [l EXCEPT !.spent = @ + ev.b, !.ops = AddOps(@, OpsOf(st, st2)),
                        !.last = <<st.pc, ev.out>>,
                        !.warned = @ \/ (ClosedIn(OpsOf(st, st2)) /\ ~ev.shutdown_ok),
                        !.proc = IF st.pc = "subprocess" THEN ev ELSE @]
    IN  IF ev.op = "recv" /\ ev.out = "ok"
        THEN IF Full(l) THEN [l1 EXCEPT !.overflow = IF @ = 1 THEN 2 ELSE 1]
             ELSE [l1 EXCEPT !.chunks = Append(@, ev.data)]
        ELSE l1

(******************************** actions **********************************)
Threads == DOMAIN run

\* Store with a fault: response_string is kept on the monitor instance,
\* which the workers share
StoreShared(runs, r, st) ==
    [q \in DOMAIN runs |->
        IF q = r THEN st
        ELSE [runs[q] EXCEPT !.response_string = st.response_string]]

\* tcp_sock and response_string are locals of the invocation: a step of
\* worker r writes r's state only
Store(runs, r, st) == [runs EXCEPT ![r] = st]

\* Do with a fault: the remaining timeout is written to the monitor
DoOnMonitorTimeout(r, ev) ==
    /\ run' = Store(run, r, Apply(monitor, run[r], ev))
    /\ log' = [log EXCEPT ![r] = Record(@, run[r], run'[r], ev)]
    /\ monitor' = IF run'[r].tcp_sock.fd_open
                  THEN [monitor EXCEPT !.timeout = run'[r].tcp_sock.timeout]
                  ELSE monitor

\* one step of worker r's run(): run() assigns to its locals only
Do(r, ev) ==
    /\ run' = Store(run, r, Apply(monitor, run[r], ev))
    /\ log' = [log EXCEPT ![r] = Record(@, run[r], run'[r], ev)]
    /\ UNCHANGED monitor

\* the scheduler calls run(dst_ip) on worker r; concurrent invocations are
\* for different destinations
Call(r, dst_ip) ==
    /\ run[r].pc \in {"idle", "done"}
    /\ log[r].calls < MaxCalls
    /\ \A q \in Threads \ {r} :
           run[q].pc \notin {"idle", "done"} => run[q].dst_ip # dst_ip
    /\ run' = Store(run, r, Start(monitor, dst_ip))
    /\ log' = [log EXCEPT ![r] = NewLog(@.calls + 1)]
    /\ UNCHANGED monitor

Connect(r) ==
    /\ run[r].pc = "connect"
    /\ \E ev \in ConnectEvents(run[r]) : Do(r, ev)

WrapSsl(r) ==
    /\ run[r].pc = "wrap_ssl"
    /\ \E ev \in WrapSslEvents(run[r]) : Do(r, ev)

Sendall(r) ==
    /\ run[r].pc = "sendall"
    /\ \E ev \in SendallEvents(run[r]) : Do(r, ev)

MatchReCheck(r) ==
    /\ run[r].pc = "match_re_check"
    /\ \E ev \in MatchReCheckEvents(monitor) : Do(r, ev)

Recv(r, chunks) ==
    /\ run[r].pc = "recv"
    /\ \E ev \in RecvEvents(monitor, run[r], chunks) :
           /\ (ev.out = "ok" /\ Full(log[r])) => Decode(ev.data) = <<>>
           /\ Do(r, ev)

Script(r) ==
    /\ run[r].pc = "subprocess"
    /\ \E ev \in ScriptEvents(monitor) : Do(r, ev)

\* the configuration loader calls the constructor with the arguments of
\* the configuration
Construct ==
    /\ monitor.kind = "args"
    /\ monitor' = New(monitor)
    /\ UNCHANGED <<run, log>>

\* only a monitor whose construction succeeded is handed to the scheduler
Built == monitor.kind \in {"tcp", "external_script"}

CallBuilt(r, dst_ip) == Built /\ Call(r, dst_ip)

(***************************** specifications ******************************)
CallStep == \E r \in Threads : \E d \in Destinations : Call(r, d)
ConnectStep == \E r \in Threads : Connect(r)
WrapSslStep == \E r \in Threads : WrapSsl(r)
SendallStep == \E r \in Threads : Sendall(r)
MatchReCheckStep == \E r \in Threads : MatchReCheck(r)
RecvStep == \E r \in Threads : Recv(r, Chunks)
ScriptStep == \E r \in Threads : Script(r)

\* one worker making one run() call on any monitor
Init ==
    /\ monitor \in TcpMonitors \cup ExtMonitors
    /\ run = [r \in {1} |-> Idle]
    /\ log = [r \in {1} |-> NewLog(MaxCalls - 1)]

Next ==
    \/ CallStep
    \/ ConnectStep
    \/ WrapSslStep
    \/ SendallStep
    \/ MatchReCheckStep
    \/ RecvStep
    \/ ScriptStep

Spec == Init /\ [][Next]_vars

\* a worker that is inside run() goes on executing it
Progress ==
    \/ ConnectStep
    \/ WrapSslStep
    \/ SendallStep
    \/ MatchReCheckStep
    \/ RecvStep
    \/ ScriptStep

FairSpec == Init /\ [][Next]_vars /\ WF_vars(Progress)

\* monitors with neither TLS nor a send payload that match "ok"
PlainMonitors ==
    {mon \in TcpMonitors :
        ~mon.use_tls /\ mon.send_string = None /\ mon.match_re = <<"o", "k">>}

\* one worker probing a peer that sends long responses
InitLong ==
    /\ monitor \in PlainMonitors
    /\ run = [r \in {1} |-> Idle]
    /\ log = [r \in {1} |-> NewLog(MaxCalls - 1)]

RecvLongStep == \E r \in Threads : Recv(r, LongChunks)

NextLong ==
    \/ CallStep
    \/ ConnectStep
    \/ MatchReCheckStep
    \/ RecvLongStep

SpecLong == InitLong /\ [][NextLong]_vars

\* one worker calling run() on a monitor MaxCalls times, one call after
\* the other
InitRerun ==
    /\ monitor \in TcpMonitors \cup ExtMonitors
    /\ run = [r \in {1} |-> Idle]
    /\ log = [r \in {1} |-> NewLog(0)]

SpecRerun == InitRerun /\ [][Next]_vars

\* a monitor is constructed from a configuration and then run once
InitNew ==
    /\ monitor \in TcpArgs \cup ExtArgs
    /\ run = [r \in {1} |-> Idle]
    /\ log = [r \in {1} |-> NewLog(MaxCalls - 1)]

ConstructStep == Construct

CallBuiltStep == \E r \in Threads : \E d \in Destinations : CallBuilt(r, d)

NextNew ==
    \/ ConstructStep
    \/ CallBuiltStep
    \/ ConnectStep
    \/ MatchReCheckStep
    \/ ScriptStep

SpecNew == InitNew /\ [][NextNew]_vars

\* two workers calling run() on the same monitor at the same time
ConcChunks == {c \in {<<"O">>, <<"k">>} : Len(c) <= RECV_BUFF_SIZE}

\* the monitors with TLS and a send payload that match "ok"
ConcMonitors ==
    {mon \in TcpMonitors :
        /\ mon.use_tls /\ mon.verify_tls
        /\ mon.send_string # None /\ mon.match_re = <<"o", "k">>}

InitConc ==
    /\ monitor \in ConcMonitors
    /\ run = [r \in {1, 2} |-> Idle]
    /\ log = [r \in {1, 2} |-> NewLog(MaxCalls - 1)]

RecvConcStep == \E r \in Threads : Recv(r, ConcChunks)

\* worker 1 probes the IPv4 destination, worker 2 the IPv6 one
CallConcStep ==
    \E r \in Threads :
        Call(r, IF r = 1 THEN <<"1", ".", "1">> ELSE <<":", ":", "1">>)

NextConc ==
    \/ CallConcStep
    \/ ConnectStep
    \/ WrapSslStep
    \/ SendallStep
    \/ MatchReCheckStep
    \/ RecvConcStep

SpecConc == InitConc /\ [][NextConc]_vars

(******************************* properties ********************************)
IsTcp == monitor.kind = "tcp"
IsExt == monitor.kind = "external_script"
Done(r) == run[r].pc = "done"

\* C1: on every path by which the TCP/TLS monitor's run() ends, the socket
\* handle is closed when run() returns or raises.
C1_HandleClosedOnEveryExit ==
    \A r \in Threads : (IsTcp /\ Done(r)) => ~run[r].tcp_sock.fd_open

\* C2: the ticks one run() spends blocked in socket operations (connect, TLS
\* handshake, send, receives) never exceed the configured timeout.
C2_BudgetNeverExceeded ==
    \A r \in Threads :
        (IsTcp /\ log[r].overflow = 0) => log[r].spent <= monitor.timeout

\* Without TLS the budget does hold: every measured operation is deducted.
BudgetHoldsWithoutTls ==
    \A r \in Threads :
        (IsTcp /\ ~monitor.use_tls /\ log[r].overflow = 0)
            => log[r].spent <= monitor.timeout

\* C3: every run() of either monitor ends by returning or by raising
\* MonitorFailed; no other exception leaves run().
C3_OnlySuccessOrMonitorFailed ==
    \A r \in Threads :
        Done(r) => run[r].result.class \in {"returned", "MonitorFailed"}

\* the bytes received so far, decoded as one stream
StreamText(r) == Decode(Flatten(log[r].chunks))

\* C4: once the chunks received so far, concatenated, match the pattern,
\* run() has ended in success, also when no chunk matches on its own.
C4_StreamedMatchSucceeds ==
    \A r \in Threads :
        (/\ IsTcp /\ monitor.match_re # None
         /\ log[r].overflow = 0 /\ log[r].chunks # <<>>
         /\ Search(monitor.match_re, StreamText(r)))
            => run[r].result = Returned

\* What the read loop does guarantee: success as soon as the accumulated
\* response_string, the concatenation of the chunks decoded one by one,
\* matches.
MatchOfAccumulatedSucceeds ==
    \A r \in Threads :
        (/\ IsTcp /\ monitor.match_re # None /\ log[r].chunks # <<>>
         /\ Search(monitor.match_re, run[r].response_string))
            => run[r].result = Returned

\* C5: a run() that has entered the read loop ends, whatever the peer sends.
C5_ReadLoopTerminates == (run[1].pc = "recv") ~> (run[1].pc = "done")

\* the operations of a successful connect / handshake / send phase
SetupOps ==
    <<"connect">> \o (IF monitor.use_tls THEN <<"wrap_ssl">> ELSE <<>>)
        \o (IF monitor.send_string # None THEN <<"sendall">> ELSE <<>>)

\* connect, the optional handshake and the optional send have all succeeded
SetupSucceeded(r) ==
    /\ Len(log[r].ops) >= Len(SetupOps)
    /\ SubSeq(log[r].ops, 1, Len(SetupOps)) = SetupOps
    /\ ~(log[r].last[1] \in {"connect", "wrap_ssl", "sendall"}
            /\ log[r].last[2] # "ok")

\* C6: with no pattern configured, once connect, the optional handshake and
\* the optional send have succeeded, run() calls close() and returns
\* success; it never calls recv().
C6_NoPatternNoRecv ==
    \A r \in Threads :
        (IsTcp /\ monitor.match_re = None) =>
            /\ run[r].pc # "recv"
            /\ \A i \in DOMAIN log[r].ops : log[r].ops[i] # "recv"
            /\ SetupSucceeded(r) =>
                  /\ run[r].pc \in {"match_re_check", "done"}
                  /\ Done(r) => /\ run[r].result = Returned
                                /\ log[r].ops = SetupOps \o <<"close">>

C6_Witness ==
    /\ IsTcp /\ monitor.match_re = None /\ monitor.use_tls
    /\ monitor.send_string # None
    /\ SetupSucceeded(1) /\ Done(1) /\ run[1].result = Returned

RemoteClosedNoData ==
    "remote closed the connection, no data received from the peer"
RemoteClosedPartial ==
    "remote closed the connection, failed to match the regexp in the response(up to 512 chars): {}"

\* C7: when the peer closes after at least one chunk was received, run()
\* raises MonitorFailed with a "remote closed" message that carries no socket
\* error and shows response_string cut to its first 512 characters.
C7_RemoteClosedShowsPartial ==
    \A r \in Threads :
        (IsTcp /\ log[r].last = <<"recv", "eof">> /\ log[r].chunks # <<>>) =>
            /\ Done(r)
            /\ run[r].result.class = "MonitorFailed"
            /\ run[r].result.error = ""
            /\ run[r].result.text \in {RemoteClosedNoData, RemoteClosedPartial}
            /\ run[r].response_string # <<>>
                  => run[r].result.text = RemoteClosedPartial
            /\ Len(run[r].result.response) <= 512
            /\ run[r].result.response
                  = [i \in 1..(IF Len(run[r].response_string) < 512
                               THEN Len(run[r].response_string) ELSE 512)
                        |-> run[r].response_string[i]]

\* the peer closed after more than 512 non-matching characters
C7_Witness ==
    /\ log[1].last = <<"recv", "eof">>
    /\ Len(log[1].chunks) >= 2
    /\ Len(run[1].response_string) > 512
    /\ run[1].result.text = RemoteClosedPartial

\* C8: close() never raises, and once it has returned the handle is closed.
C8_CloseClosesHandle ==
    \A r \in Threads :
        (IsTcp /\ ClosedIn(log[r].ops)) =>
            /\ run[r].result = Returned
            /\ ~run[r].tcp_sock.fd_open

\* close() never raises: a run() that called it returns normally
CloseNeverRaises ==
    \A r \in Threads : (IsTcp /\ ClosedIn(log[r].ops)) => run[r].result = Returned

\* the script ran to its end within the timeout
Completed(r) == log[r].proc.out \in {"exit", "UnicodeDecodeError"}

\* ... and its output was captured as text
CapturedAsText(r) == log[r].proc.out = "exit"

\* C9 as stated: the External-Script run() succeeds exactly when the script
\* completes within the timeout with exit code 0 and the pattern, if any, is
\* found in the captured standard output.
C9_SuccessIffFoundInOutput ==
    \A r \in Threads :
        (IsExt /\ Done(r)) =>
            (run[r].result = Returned
                <=> /\ Completed(r)
                    /\ log[r].proc.code = 0
                    /\ \/ monitor.match_re = None
                       \/ Search(monitor.match_re, log[r].proc.data))

\* C9 amended: the External-Script run() succeeds exactly when the script
\* completes within the timeout, its output is captured as text, its exit
\* code is 0 and the pattern, if any, is found in the captured standard
\* output with its leading and trailing whitespace removed.  A non-zero exit
\* code and a timeout fail with MonitorFailed.
C9_SuccessIffFoundInStrippedOutput ==
    \A r \in Threads :
        (IsExt /\ Done(r)) =>
            /\ run[r].result = Returned
                <=> /\ Completed(r) /\ CapturedAsText(r)
                    /\ log[r].proc.code = 0
                    /\ \/ monitor.match_re = None
                       \/ Search(monitor.match_re, Strip(log[r].proc.data))
            /\ log[r].proc.code # 0 => run[r].result.class = "MonitorFailed"
            /\ log[r].proc.out = "TimeoutExpired"
                  => run[r].result.class = "MonitorFailed"

\* a script whose output matches only after stripping succeeds
C9_Witness ==
    /\ IsExt /\ Done(1) /\ run[1].result = Returned
    /\ monitor.match_re # None
    /\ ~Search(monitor.match_re, log[1].proc.data)
    /\ Search(monitor.match_re, Strip(log[1].proc.data))

\* what the environment can do in the step run() takes from st
EventsAt(mon, st, chunks) ==
    CASE st.pc = "connect" -> ConnectEvents(st)
      [] st.pc = "wrap_ssl" -> WrapSslEvents(st)
      [] st.pc = "sendall" -> SendallEvents(st)
      [] st.pc = "match_re_check" -> MatchReCheckEvents(mon)
      [] st.pc = "recv" -> RecvEvents(mon, st, chunks)
      [] st.pc = "subprocess" -> ScriptEvents(mon)
      [] OTHER -> {}

\* st2 is a state a run() executing alone can step to from st
IsSoloStep(mon, st, st2, chunks) ==
    \/ \E ev \in EventsAt(mon, st, chunks) : st2 = Apply(mon, st, ev)
    \/ /\ st.pc \in {"idle", "done"}
       /\ \E d \in Destinations : st2 = Start(mon, d)

RECURSIVE AccumulateAll(_)
\* the chunks decoded one by one and joined
AccumulateAll(chunks) ==
    IF chunks = <<>> THEN <<>>
    ELSE Accumulate(AccumulateAll(SubSeq(chunks, 1, Len(chunks) - 1)),
                    chunks[Len(chunks)])

\* what worker r's run() shows is what the chunks r itself received give
OwnOutcome(r) ==
    /\ run[r].response_string = AccumulateAll(log[r].chunks)
    /\ run[r].pc # "idle" =>
          /\ run[r].tcp_sock.ip = run[r].dst_ip
          /\ run[r].tcp_sock.timeout <= monitor.timeout
    /\ run[r].result = Returned
          <=> /\ log[r].chunks # <<>>
              /\ Search(monitor.match_re, AccumulateAll(log[r].chunks))

\* C10: of two run() invocations on one monitor that interleave in any way,
\* each goes through the states of a run() executing alone: a step of one
\* worker is a step of the lone run(), changes nothing of the other worker's
\* socket, remaining timeout and response buffer, and leaves the monitor's
\* configuration as it was; each worker's outcome is the one its own chunks
\* give.
C10_NonInterference ==
    /\ [](\A r \in {1, 2} : OwnOutcome(r))
    /\ [][/\ monitor' = monitor
          /\ \A r \in {1, 2} :
                run'[r] # run[r] =>
                    /\ IsSoloStep(monitor, run[r], run'[r], ConcChunks)
                    /\ \A q \in {1, 2} \ {r} : run'[q] = run[q]]_vars

\* both workers are in the read loop, for different destinations, with
\* different responses accumulated
C10_Witness ==
    /\ run[1].pc = "recv" /\ run[2].pc = "recv"
    /\ run[1].dst_ip # run[2].dst_ip
    /\ run[1].response_string = <<"O">>
    /\ run[2].response_string = <<"k">>
    /\ log[1].spent # log[2].spent

\* the arguments other than match_re are valid
OtherArgsValid(a) ==
    IF a.class = "TCP"
    THEN /\ a.port.type = "int" /\ a.port.val >= 1 /\ a.port.val <= 65535
         /\ a.send_string = None \/ Len(a.send_string) <= 256
    ELSE a.script_path # None

IsPattern(m) == m # None /\ m # <<>> /\ Head(m) # "bytes"

\* C11: constructing either monitor with a match_re of more than 128
\* characters fails with a validation error; with a pattern of exactly 128
\* characters, the other arguments being valid, it succeeds and the monitor
\* holds that pattern.  A pattern is a regular expression: a string of 128
\* characters that does not compile is none, and fails with a validation
\* error as well.
C11_PatternMax128 ==
    [][(monitor.kind = "args" /\ IsPattern(monitor.match_re)) =>
          /\ Len(monitor.match_re) > 128 => monitor'.kind = "Error"
          /\ (Len(monitor.match_re) = 128 /\ OtherArgsValid(monitor))
                => IF \E i \in 1..128 : monitor.match_re[i] = "("
                   THEN monitor'.kind = "Error"
                   ELSE /\ monitor'.kind \in {"tcp", "external_script"}
                        /\ monitor'.match_re = monitor.match_re]_vars

\* a monitor constructed with a pattern of 128 characters has been run
C11_Witness ==
    /\ Built /\ monitor.match_re # None /\ Len(monitor.match_re) = 128
    /\ Done(1)

PortErrorText == "port \"{}\" must be an integer between 1 and 65535"

\* C12: constructing a TCP monitor with a port that is no integer or lies
\* outside 1..65535 fails with the port's validation error; so run() is only
\* ever called on a monitor whose port is in range, connects to that port,
\* and never ends in a validation error.
C12_BadPortFailsAtConstruction ==
    /\ [](\A r \in Threads :
            /\ run[r].result.class # "Error"
            /\ run[r].pc # "idle" =>
                  /\ Built
                  /\ IsTcp => /\ monitor.port >= 1 /\ monitor.port <= 65535
                              /\ run[r].tcp_sock.port = monitor.port)
    /\ [][(/\ monitor.kind = "args" /\ monitor.class = "TCP"
           /\ \/ monitor.port.type # "int"
              \/ monitor.port.val < 1
              \/ monitor.port.val > 65535)
            => /\ monitor'.kind = "Error"
               /\ monitor'.text = PortErrorText]_vars

\* the constructor has rejected port 65536, whatever the other arguments
C12_Witness ==
    /\ monitor.kind = "Error"
    /\ monitor.text = PortErrorText
    /\ monitor.assigned.port.type = "int"
    /\ monitor.assigned.port.val = 65536

\* the socket operations that block
Blocking == {"connect", "wrap_ssl", "sendall", "recv"}

\* worker r's step is the blocking operation of its state, completed
\* successfully with the timing ev
Completes(r, ev) ==
    /\ run[r].pc \in Blocking /\ ev.out = "ok"
    /\ run'[r] = Apply(monitor, run[r], ev)
    /\ log'[r] = Record(log[r], run[r], run'[r], ev)

\* max(0, R - t)
Decayed(R, t) == IF R - t < 0 THEN 0 ELSE R - t

\* C13: after each blocking socket operation (connect, TLS handshake, send,
\* receive) that started with remaining timeout R and took t ticks (blocked
\* and measuring), the timeout applied to the socket for the next operation
\* is max(0, R - t); the remaining timeout is never negative.
C13_DecayAfterEveryOperation ==
    /\ [](\A r \in Threads :
            run[r].tcp_sock.timeout >= 0 /\ run[r].tcp_sock.os_timeout >= 0)
    /\ [][\A r \in Threads :
            \A ev \in EventsAt(monitor, run[r], Chunks) :
                Completes(r, ev) =>
                    run'[r].tcp_sock.os_timeout
                        = Decayed(run[r].tcp_sock.os_timeout, ev.b + ev.o)]_vars

\* What holds: the decay step after connect, send and receive, and the
\* remaining timeout never negative.
DecayAfterMeasuredOperation ==
    /\ [](\A r \in Threads :
            run[r].tcp_sock.timeout >= 0 /\ run[r].tcp_sock.os_timeout >= 0)
    /\ [][\A r \in Threads :
            \A ev \in EventsAt(monitor, run[r], Chunks) :
                (Completes(r, ev) /\ run[r].pc # "wrap_ssl") =>
                    run'[r].tcp_sock.os_timeout
                        = Decayed(run[r].tcp_sock.os_timeout, ev.b + ev.o)]_vars

RecvFailedNoData == "got {error}, no data received from the peer"
RecvFailedPartial ==
    "failed to match the regexp within the timeout, got {error}, response(up to 512 chars): {response_string}"

\* worker r's run() ended in the read loop, by a receive error or because
\* the peer closed
FailedInReadLoop(r) ==
    /\ IsTcp /\ Done(r) /\ log[r].last[1] = "recv"
    /\ run[r].result.class = "MonitorFailed"

\* bytes were received by an earlier recv() of the run()
BytesReceived(r) ==
    \/ log[r].overflow # 0
    \/ \E i \in DOMAIN log[r].chunks : log[r].chunks[i] # <<>>

\* C14: a run() that fails in the read loop, by a receive error or a clean
\* peer-close, reports the "no data received" variant exactly when no bytes
\* were received by an earlier recv() of the run(); when a non-empty chunk
\* was received, undecodable or not, it reports the partial-response
\* variant.
C14_NoDataIffNoBytes ==
    \A r \in Threads :
        FailedInReadLoop(r) =>
            /\ run[r].result.text \in {RecvFailedNoData, RemoteClosedNoData}
                  <=> ~BytesReceived(r)
            /\ BytesReceived(r) =>
                  run[r].result.text \in {RecvFailedPartial, RemoteClosedPartial}

\* What holds: the variant is chosen by the decoded text accumulated, and
\* the undecodable bytes add nothing to it.
NoDataIffNoTextDecoded ==
    \A r \in Threads :
        FailedInReadLoop(r) =>
            /\ run[r].result.text \in {RecvFailedNoData, RemoteClosedNoData}
                  <=> run[r].response_string = <<>>
            /\ run[r].response_string # <<>> =>
                  run[r].result.text \in {RecvFailedPartial, RemoteClosedPartial}

\* the connect / handshake / send / receive operations of worker r's run(),
\* in the order they were started
SocketOps(r) == SelectSeq(log[r].ops, LAMBDA op : op \in Blocking)

IsPrefix(s, t) == Len(s) <= Len(t) /\ SubSeq(t, 1, Len(s)) = s

\* the last step of worker r's run() was an operation that failed
LastFailed(r) ==
    log[r].last[1] \in Blocking /\ log[r].last[2] \notin {"ok", "eof"}

\* C15: in every TCP run() the socket operations are started in the order
\* connect, TLS handshake (only with use_tls), send (only with a
\* send_string), then zero or more receives; connect, handshake and send
\* are each started at most once; when an operation fails it is the last
\* one, the run() has ended, and nothing is started until the next run().
C15_FixedOrderNoRetry ==
    /\ [](\A r \in Threads :
            IsTcp =>
                /\ IsPrefix(SocketOps(r), SetupOps \o <<"recv">>)
                /\ \A op \in {"connect", "wrap_ssl", "sendall"} :
                      Cardinality({i \in DOMAIN log[r].ops : log[r].ops[i] = op}) <= 1
                /\ LastFailed(r) =>
                      /\ Done(r)
                      /\ SocketOps(r)[Len(SocketOps(r))] = log[r].last[1])
    /\ [][\A r \in Threads :
            (IsTcp /\ Done(r) /\ log'[r].calls = log[r].calls)
                => log'[r] = log[r] /\ run'[r] = run[r]]_vars

\* the second run() of a worker failed in recv() after connect, handshake,
\* send and two chunks
C15_Witness ==
    /\ IsTcp /\ log[1].calls = 2
    /\ log[1].ops = <<"connect", "wrap_ssl", "sendall", "recv">>
    /\ Len(log[1].chunks) = 2
    /\ LastFailed(1) /\ Done(1)

\* C16: no step of a run() changes the monitor (timeout, port, match_re,
\* send_string); every run() starts on a new open socket whose remaining
\* timeout, and the timeout applied to it, is the monitor's configured
\* timeout, with an empty response buffer, whatever the runs before it used.
C16_RunLeavesMonitorFreshSession ==
    [][/\ monitor' = monitor
       /\ \A r \in Threads :
            (IsTcp /\ log'[r].calls = log[r].calls + 1) =>
                /\ run'[r].pc = "connect"
                /\ run'[r].tcp_sock.fd_open /\ ~run'[r].tcp_sock.tls
                /\ run'[r].tcp_sock.timeout = monitor.timeout
                /\ run'[r].tcp_sock.os_timeout = monitor.timeout
                /\ run'[r].tcp_sock.port = monitor.port
                /\ run'[r].tcp_sock.ip = run'[r].dst_ip
                /\ run'[r].response_string = <<>>
                /\ log'[r].spent = 0]_vars

\* a second run() has used its whole budget, as any run before it may have
C16_Witness ==
    /\ IsTcp /\ log[1].calls = 2
    /\ run[1].pc = "recv"
    /\ run[1].tcp_sock.timeout = 0
    /\ monitor.timeout = MaxTimeout

\* C17: a TCP run() with a match_re returns only when the pattern matches
\* the text accumulated from all the chunks received in that run(), in
\* arrival order, and the last step was a recv() that returned a chunk:
\* never after a receive error or a peer-close, and with an empty
\* response_string only if the pattern matches the empty text.
C17_SuccessOnlyOnMatch ==
    \A r \in Threads :
        (IsTcp /\ monitor.match_re # None /\ run[r].result = Returned) =>
            /\ run[r].response_string = AccumulateAll(log[r].chunks)
            /\ Search(monitor.match_re, AccumulateAll(log[r].chunks))
            /\ log[r].last = <<"recv", "ok">>
            /\ log[r].chunks # <<>>
            /\ run[r].response_string = <<>> => Search(monitor.match_re, <<>>)

\* success on a pattern that only the two chunks together match
C17_Witness ==
    /\ IsTcp /\ run[1].result = Returned
    /\ monitor.match_re = <<"o", "k">>
    /\ log[1].chunks = << <<"O">>, <<"k">> >>
    /\ run[1].response_string = <<"O", "k">>

\* the steps of run() that invoke an operation on the socket
SocketSteps == Blocking \cup {"match_re_check"}

\* C18: once the socket of a run() has been closed, by a failed connect,
\* handshake, send or receive or by close(), the run() has ended and no
\* connect, handshake, send, receive or close is invoked on that socket:
\* every operation is invoked on an open socket, and close() at most once,
\* as the last operation.
C18_NoUseAfterClose ==
    /\ [](\A r \in Threads :
            IsTcp =>
                /\ (run[r].pc # "idle" /\ ~run[r].tcp_sock.fd_open) => Done(r)
                /\ Cardinality({i \in DOMAIN log[r].ops : log[r].ops[i] = "close"}) <= 1
                /\ ClosedIn(log[r].ops) =>
                      Done(r) /\ log[r].ops[Len(log[r].ops)] = "close")
    /\ [][\A r \in Threads :
            /\ (IsTcp /\ run[r].pc \in SocketSteps /\ log'[r] # log[r])
                  => run[r].tcp_sock.fd_open
            /\ (/\ IsTcp /\ run[r].pc # "idle" /\ ~run[r].tcp_sock.fd_open
                /\ log'[r].calls = log[r].calls)
                  => log'[r] = log[r] /\ run'[r] = run[r]]_vars

\* a failed recv() has closed the socket of a run() that had received data
C18_Witness ==
    /\ IsTcp /\ Done(1) /\ ~run[1].tcp_sock.fd_open
    /\ log[1].last = <<"recv", "ConnectionResetError">>
    /\ log[1].chunks # <<>>
    /\ ~ClosedIn(log[1].ops)

\* C19: whenever a blocking socket operation is about to start, the timeout
\* applied to the socket is the recorded remaining timeout; within one
\* run() the recorded value never increases and stays within 0 and the
\* monitor's configured timeout.
C19_AppliedTimeoutIsRecorded ==
    /\ [](\A r \in Threads :
            (IsTcp /\ run[r].pc # "idle") =>
                /\ run[r].pc \in Blocking
                      => run[r].tcp_sock.os_timeout = run[r].tcp_sock.timeout
                /\ run[r].tcp_sock.timeout >= 0
                /\ run[r].tcp_sock.timeout <= monitor.timeout)
    /\ [][\A r \in Threads :
            (IsTcp /\ run[r].pc # "idle" /\ log'[r].calls = log[r].calls)
                => run'[r].tcp_sock.timeout <= run[r].tcp_sock.timeout]_vars

\* a send is about to start on a TLS socket with part of the budget used
C19_Witness ==
    /\ IsTcp /\ run[1].pc = "sendall" /\ run[1].tcp_sock.tls
    /\ run[1].tcp_sock.timeout = 1
    /\ run[1].tcp_sock.os_timeout = 1
    /\ monitor.timeout = MaxTimeout

====
